---- MODULE Spec2Model ----
(***************************************************************************)
(* The story generation pipeline of StoryViewSet (django_views.py) with    *)
(* its step ledger (GenerationLog, django_models.py).                      *)
(*                                                                         *)
(* One HTTP request to generate is one run.  The responses of the          *)
(* collaborators of a run (speech client, story generator, image client,   *)
(* composer) are the run's environment: they are drawn when the request    *)
(* arrives and read when the code calls the collaborator.                  *)
(***************************************************************************)
EXTENDS Integers, Sequences, FiniteSets, TLC

\* Number of generate requests the model handles (they run concurrently).
MaxRuns == 1

Requests == 1..MaxRuns

\* Python None / an unset FileField.
NONE == "none"

\* A null DateTimeField / FloatField is << >>, a set one is <<t>>.
NullTime == << >>

\* bool(x) of a str or of a FieldFile.
Truthy(x) == x # "" /\ x # NONE

(***************************************************************************)
(* Request inputs.                                                         *)
(***************************************************************************)
Prompts == {"", "a prompt"}
AudioFiles == {NONE, "audio.wav"}

\* GenerationLog.STEP values the views use, in pipeline order.
Steps ==
  <<"speech_to_text", "story_generation", "character_image",
    "background_image", "image_composition">>

StepNames == {Steps[i] : i \in 1..Len(Steps)}

(***************************************************************************)
(* The environment of a run: what each collaborator answers when called.   *)
(***************************************************************************)
TranscriptionOutcomes == {"invalid", "fail", "raise", "ok"}
StoryOutcomes == {"ok", "fail", "raise"}
ImageOutcomes == {"ok", "fail"}

NoEnv ==
  [transcription |-> NONE, story |-> NONE, character |-> NONE,
   background |-> NONE, composition |-> NONE]

\* A collaborator has an answer in the environment exactly when the pipeline
\* can come to call it, given the answers before it: the speech client for a
\* request with audio, the story generator unless transcription failed, the
\* image client if the story was generated, the composer if both images were.
Opt(asked, outcomes) == IF asked THEN outcomes ELSE {NONE}

Environments(audio) ==
  UNION {
    UNION {
      UNION {
        UNION {
          {[transcription |-> t, story |-> s, character |-> c,
            background |-> b, composition |-> m] :
             m \in Opt(c = "ok" /\ b = "ok", ImageOutcomes)} :
          b \in Opt(s = "ok", ImageOutcomes)} :
        c \in Opt(s = "ok", ImageOutcomes)} :
      s \in Opt(t \in {NONE, "ok"}, StoryOutcomes)} :
    t \in Opt(Truthy(audio), TranscriptionOutcomes)}

\* str(e) of the AttributeError raised by time.timezone.now().
LedgerError == "'int' object has no attribute 'now'"

VARIABLES
  request,            \* r -> request.data / request.FILES of the request
  env,                \* r -> answers of the collaborators of the run
  stories,            \* Story table: id -> row (the id of run r is r)
  logs,               \* GenerationLog table, in insertion order
  clock,              \* database time (auto_now_add)
  pc,                 \* r -> position of the request's thread
  stage,              \* r -> step function being executed
  pending,            \* r -> the _update_log call the step is about to make
  exc,                \* r -> str(e) of the exception in flight ("" if none)
  character_result,   \* r -> local of _process_story_generation
  background_result,  \* r -> local of _process_story_generation
  result,             \* r -> generation_result in generate
  response,           \* r -> Response returned by generate
  last,               \* the last direct call of _create_log / _update_log
  fb,                 \* the _generate_with_fallback call in progress
  previous,           \* the _generate_with_fallback call that returned last
  ret                 \* the last direct call of a view or helper: arguments, value

\* The variables of the story pipeline and of its tables.
pipelineVars ==
  <<request, env, stories, logs, clock, pc, stage, pending, exc,
    character_result, background_result, result, response>>

vars ==
  <<request, env, stories, logs, clock, pc, stage, pending, exc,
    character_result, background_result, result, response,
    last, fb, previous, ret>>

(***************************************************************************)
(* Rows and values.                                                        *)
(***************************************************************************)
NoRequest == [user_prompt |-> "", audio_file |-> NONE]

\* Story.objects.create(user_prompt=..., audio_file=...)
NewStory(prompt, audio) ==
  [user_prompt |-> prompt,
   audio_file |-> audio,
   transcribed_text |-> "",
   story_text |-> "",
   character_description |-> "",
   character_image |-> NONE,
   background_image |-> NONE,
   composed_image |-> NONE,
   prompt_used |-> NONE,
   processing_time |-> NONE]

\* GenerationLog.objects.create(story=..., step=..., status=...)
NewLog(story, step, status, now) ==
  [story |-> story,
   step |-> step,
   status |-> status,
   started_at |-> now,
   completed_at |-> NullTime,
   duration |-> NullTime,
   result_data |-> "",
   error_message |-> ""]

NoPending == [status |-> "", result_data |-> "", error |-> ""]

\* A step function's / the pipeline's return value {"success": .., "error": ..}.
Ok == [success |-> TRUE, error |-> ""]
Failure(e) == [success |-> FALSE, error |-> e]
NoResult == [success |-> FALSE, error |-> ""]

NoResponse == [status |-> 0, success |-> FALSE, error |-> "", story_id |-> 0]

(***************************************************************************)
(* StoryViewSet._create_log                                                *)
(***************************************************************************)
\* Mutant of CreateLog: the record is created twice.
CreateLogTwice(L, story, step, status, now) ==
  Append(Append(L, NewLog(story, step, status, now)),
         NewLog(story, step, status, now))

CreateLog(L, story, step, status, now) ==
  Append(L, NewLog(story, step, status, now))

(***************************************************************************)
(* StoryViewSet._update_log                                                *)
(***************************************************************************)
\* Mutant of Matching: the filter leaves out the story.
MatchingAnyStory(L, story, step) ==
  {i \in 1..Len(L) : L[i].step = step}

\* GenerationLog.objects.filter(story=story, step=step)
Matching(L, story, step) ==
  {i \in 1..Len(L) : L[i].story = story /\ L[i].step = step}

\* .latest('started_at')
Latest(L, story, step) ==
  CHOOSE i \in Matching(L, story, step) :
    \A j \in Matching(L, story, step) : L[j].started_at <= L[i].started_at

\* Mutant of HasTimezoneAttr: the attribute is missing, so completed_at is
\* None and log.save() is reached.
HasTimezoneAttrMissing == FALSE

\* hasattr(time, 'timezone'): time is the standard library module, whose
\* attribute timezone is an int (the UTC offset in seconds).
HasTimezoneAttr == TRUE

\* Mutant of UpdateLog: a missing record is created (update_or_create).
UpdateLogFabricates(L, story, step, status, result_data, error) ==
  IF Matching(L, story, step) = {}
  THEN [logs |-> Append(L, NewLog(story, step, status, 0)), raised |-> ""]
  ELSE [logs |-> L, raised |-> LedgerError]

\* Mutant of UpdateLog: every record of the story and step is written
\* (filter(...).update(status=status)).
UpdateLogEveryMatch(L, story, step, status, result_data, error) ==
  [logs |-> [i \in 1..Len(L) |->
               IF i \in Matching(L, story, step)
               THEN [L[i] EXCEPT !.status = status]
               ELSE L[i]],
   raised |-> ""]

\* The table after the call, and str(e) of the exception that leaves it.
UpdateLog(L, story, step, status, result_data, error) ==
  IF Matching(L, story, step) = {}
  THEN [logs |-> L, raised |-> ""]                \* DoesNotExist: pass
  ELSE IF HasTimezoneAttr
  THEN [logs |-> L, raised |-> LedgerError]       \* before log.save()
  ELSE LET i == Latest(L, story, step)
       IN [logs |->
             [L EXCEPT ![i] =
                [@ EXCEPT !.status = status,
                          !.completed_at = NullTime,
                          !.result_data =
                             IF Truthy(result_data) THEN result_data ELSE @,
                          !.error_message =
                             IF Truthy(error) THEN error ELSE @]],
           raised |-> ""]

(***************************************************************************)
(* The step functions: what the code between _create_log and _update_log   *)
(* does with the collaborator's answer.  Each yields the Story row after   *)
(* the body, str(e) of an exception raised in the body ("" if none), and   *)
(* the _update_log call the body goes on to make.                          *)
(***************************************************************************)
Body(story, raised, status, result_data, error) ==
  [story |-> story,
   raised |-> raised,
   pending |-> [status |-> status, result_data |-> result_data, error |-> error]]

\* final_prompt = story.transcribed_text or story.user_prompt
FinalPrompt(story) ==
  IF Truthy(story.transcribed_text)
  THEN story.transcribed_text
  ELSE story.user_prompt

\* _process_audio, after _create_log
ProcessAudioBody(story, e) ==
  CASE e.transcription = "invalid" ->
         Body(story, "", "failed", "", "Unsupported format")
    [] e.transcription = "ok" ->
         Body([story EXCEPT !.transcribed_text = "a transcript"],
              "", "completed", "transcription", "")
    [] e.transcription = "fail" ->
         Body(story, "", "failed", "", "All transcription services failed")
    [] OTHER ->
         Body(story, "speech client raised", "", "", "")

\* _generate_story_content, after _create_log
GenerateStoryBody(story, e) ==
  CASE e.story = "ok" ->
         Body([story EXCEPT !.story_text = "a story",
                            !.character_description = "a character",
                            !.prompt_used = FinalPrompt(story)],
              "", "completed", "story_length", "")
    [] e.story = "fail" ->
         Body(story, "", "failed", "", "story generator failed")
    [] OTHER ->
         Body(story, "story generator raised", "", "", "")

\* _generate_character_image, after _create_log
GenerateCharacterBody(story, e) ==
  IF e.character = "ok"
  THEN Body([story EXCEPT !.character_image = "character.jpg"],
            "", "completed", "image_size", "")
  ELSE Body(story, "", "failed", "",
            "All available models failed to generate image")

\* _generate_background_image, after _create_log
GenerateBackgroundBody(story, e) ==
  IF e.background = "ok"
  THEN Body([story EXCEPT !.background_image = "background.jpg"],
            "", "completed", "image_size", "")
  ELSE Body(story, "", "failed", "",
            "All available models failed to generate image")

\* _compose_final_image, after _create_log
ComposeBody(story, e) ==
  IF e.composition = "ok"
  THEN Body([story EXCEPT !.composed_image = "composed.jpg"],
            "", "completed", "composition_info", "")
  ELSE Body(story, "", "failed", "", "composer failed")

StepBody(step, story, e) ==
  CASE step = "speech_to_text" -> ProcessAudioBody(story, e)
    [] step = "story_generation" -> GenerateStoryBody(story, e)
    [] step = "character_image" -> GenerateCharacterBody(story, e)
    [] step = "background_image" -> GenerateBackgroundBody(story, e)
    [] OTHER -> ComposeBody(story, e)

(***************************************************************************)
(* StoryViewSet._process_story_generation: the control between the steps.  *)
(***************************************************************************)
\* Mutant of HasAudio: audio is transcribed only when no prompt was typed.
HasAudioUnlessPrompt(story) ==
  Truthy(story.audio_file) /\ ~Truthy(story.user_prompt)

\* if story.audio_file:
HasAudio(story) == Truthy(story.audio_file)

FirstStep(story) ==
  IF HasAudio(story) THEN "speech_to_text" ELSE "story_generation"

\* Where the pipeline goes when a step function has returned res.
Goto(p, s, res, cres, bres) ==
  [pc |-> p, stage |-> s, result |-> res,
   character_result |-> cres, background_result |-> bres]

AfterStep(step, res, cres, bres) ==
  CASE step = "speech_to_text" ->
         IF ~res.success
         THEN Goto("respond", step, res, cres, bres)
         ELSE Goto("begin", "story_generation", NoResult, cres, bres)
    [] step = "story_generation" ->
         IF ~res.success
         THEN Goto("respond", step, res, cres, bres)
         ELSE Goto("begin", "character_image", NoResult, cres, bres)
    [] step = "character_image" ->
         Goto("begin", "background_image", NoResult, res, bres)
    [] step = "background_image" ->
         IF cres.success /\ res.success
         THEN Goto("begin", "image_composition", NoResult, cres, res)
         ELSE Goto("respond", step, Ok, cres, res)
    [] OTHER ->
         Goto("respond", step, Ok, cres, bres)

\* Mutant of PipelineExceptResult: the except clause reports success.
PipelineExceptSwallows(e) == [success |-> TRUE, error |-> e]

\* except Exception as e: return {"success": False, "error": str(e)}
PipelineExceptResult(e) == Failure(e)

(***************************************************************************)
(* StoryViewSet.generate                                                   *)
(***************************************************************************)
\* Mutant of InvalidInput: tests for None, which an empty prompt ('') is not.
InvalidInputIsNone(prompt, audio) == prompt = NONE /\ audio = NONE

\* if not user_prompt and not audio_file:
InvalidInput(prompt, audio) == ~Truthy(prompt) /\ ~Truthy(audio)

BadRequest ==
  [status |-> 400, success |-> FALSE,
   error |-> "Either user_prompt or audio_file is required", story_id |-> 0]

\* The Response built from generation_result.
ResponseOf(res, id) ==
  IF res.success
  THEN [status |-> 200, success |-> TRUE, error |-> "", story_id |-> id]
  ELSE [status |-> 500, success |-> FALSE, error |-> res.error, story_id |-> id]

(***************************************************************************)
(* The state machine.                                                      *)
(*   pc: "idle" (no request yet), "begin" (the step is about to call       *)
(*   _create_log), "call" (about to call its collaborator), "update"       *)
(*   (about to call _update_log with the outcome), "handler" (in the       *)
(*   step's except clause), "except" (in the pipeline's except clause),    *)
(*   "respond" (back in generate), "done" (Response returned).             *)
(***************************************************************************)
\* No direct ledger call was made, no fallback call is in progress.
NoCall ==
  [op |-> NONE, story |-> 0, step |-> NONE, status |-> NONE,
   had_record |-> FALSE, raised |-> "", before |-> << >>]

NoFallback ==
  [pc |-> "idle", image_type |-> NONE, answers |-> << >>, i |-> 0,
   probed |-> << >>, invoked |-> << >>, result |-> [success |-> FALSE]]

NoPrevious ==
  [n |-> 0, image_type |-> NONE, answers |-> << >>,
   result |-> [success |-> FALSE]]

\* No view or helper was called directly.
NoReturn == [op |-> NONE]

\* The tables are empty and no request of R has arrived.
PipelineInit(R) ==
  /\ request = [r \in R |-> NoRequest]
  /\ env = [r \in R |-> NoEnv]
  /\ stories = << >>
  /\ logs = << >>
  /\ clock = 1
  /\ pc = [r \in R |-> "idle"]
  /\ stage = [r \in R |-> NONE]
  /\ pending = [r \in R |-> NoPending]
  /\ exc = [r \in R |-> ""]
  /\ character_result = [r \in R |-> NoResult]
  /\ background_result = [r \in R |-> NoResult]
  /\ result = [r \in R |-> NoResult]
  /\ response = [r \in R |-> NoResponse]

Init ==
  /\ PipelineInit(Requests)
  /\ last = NoCall
  /\ fb = NoFallback
  /\ previous = NoPrevious
  /\ ret = NoReturn

\* generate, up to the call of _process_story_generation and the first
\* step function.
Generate(r) ==
  /\ pc[r] = "idle"
  /\ \E prompt \in Prompts, audio \in AudioFiles :
       /\ request' = [request EXCEPT ![r] =
                        [user_prompt |-> prompt, audio_file |-> audio]]
       /\ IF InvalidInput(prompt, audio)
          THEN /\ response' = [response EXCEPT ![r] = BadRequest]
               /\ pc' = [pc EXCEPT ![r] = "done"]
               /\ UNCHANGED <<env, stories, stage>>
          ELSE /\ stories' = stories @@ (r :> NewStory(prompt, audio))
               /\ \E e \in Environments(audio) : env' = [env EXCEPT ![r] = e]
               /\ stage' = [stage EXCEPT ![r] = FirstStep(NewStory(prompt, audio))]
               /\ pc' = [pc EXCEPT ![r] = "begin"]
               /\ UNCHANGED response
  /\ UNCHANGED <<logs, clock, pending, exc, character_result,
                 background_result, result>>
  /\ UNCHANGED <<last, fb, previous, ret>>

\* self._create_log(story, step, 'processing'), first statement of a step.
BeginStep(r) ==
  /\ pc[r] = "begin"
  /\ logs' = CreateLog(logs, r, stage[r], "processing", clock)
  /\ clock' = clock + 1
  /\ pc' = [pc EXCEPT ![r] = "call"]
  /\ UNCHANGED <<request, env, stories, stage, pending, exc, character_result,
                 background_result, result, response>>
  /\ UNCHANGED <<last, fb, previous, ret>>

\* The step's collaborator call and, on success, the write of its output
\* to the Story row (story.save()).
CallCollaborator(r) ==
  /\ pc[r] = "call"
  /\ LET b == StepBody(stage[r], stories[r], env[r])
     IN /\ stories' = [stories EXCEPT ![r] = b.story]
        /\ pending' = [pending EXCEPT ![r] = b.pending]
        /\ exc' = [exc EXCEPT ![r] = b.raised]
        /\ pc' = [pc EXCEPT ![r] = IF b.raised # "" THEN "handler" ELSE "update"]
  /\ UNCHANGED <<request, env, logs, clock, stage, character_result,
                 background_result, result, response>>
  /\ UNCHANGED <<last, fb, previous, ret>>

\* The pipeline's locals and position once the step function returned res.
Return(r, res) ==
  LET g == AfterStep(stage[r], res, character_result[r], background_result[r])
  IN /\ pc' = [pc EXCEPT ![r] = g.pc]
     /\ stage' = [stage EXCEPT ![r] = g.stage]
     /\ result' = [result EXCEPT ![r] = g.result]
     /\ character_result' = [character_result EXCEPT ![r] = g.character_result]
     /\ background_result' = [background_result EXCEPT ![r] = g.background_result]

\* self._update_log(story, step, 'completed' | 'failed', ...) in the try
\* block, then the step's return.
UpdateStep(r) ==
  /\ pc[r] = "update"
  /\ LET u == UpdateLog(logs, r, stage[r], pending[r].status,
                        pending[r].result_data, pending[r].error)
     IN /\ logs' = u.logs
        /\ IF u.raised # ""
           THEN /\ exc' = [exc EXCEPT ![r] = u.raised]
                /\ pc' = [pc EXCEPT ![r] = "handler"]
                /\ UNCHANGED <<stage, result, character_result, background_result>>
           ELSE /\ exc' = exc
                /\ Return(r, IF pending[r].status = "completed"
                             THEN Ok
                             ELSE Failure(pending[r].error))
  /\ UNCHANGED <<request, env, stories, clock, pending, response>>
  /\ UNCHANGED <<last, fb, previous, ret>>

\* except Exception as e: self._update_log(story, step, 'failed',
\* error=str(e)); return {"success": False, "error": str(e)}
HandleStepException(r) ==
  /\ pc[r] = "handler"
  /\ LET u == UpdateLog(logs, r, stage[r], "failed", "", exc[r])
     IN /\ logs' = u.logs
        /\ IF u.raised # ""
           THEN /\ exc' = [exc EXCEPT ![r] = u.raised]
                /\ pc' = [pc EXCEPT ![r] = "except"]
                /\ UNCHANGED <<stage, result, character_result, background_result>>
           ELSE /\ exc' = [exc EXCEPT ![r] = ""]
                /\ Return(r, Failure(exc[r]))
  /\ UNCHANGED <<request, env, stories, clock, pending, response>>
  /\ UNCHANGED <<last, fb, previous, ret>>

\* The except clause of _process_story_generation.
PipelineExcept(r) ==
  /\ pc[r] = "except"
  /\ result' = [result EXCEPT ![r] = PipelineExceptResult(exc[r])]
  /\ exc' = [exc EXCEPT ![r] = ""]
  /\ pc' = [pc EXCEPT ![r] = "respond"]
  /\ UNCHANGED <<request, env, stories, logs, clock, stage, pending,
                 character_result, background_result, response>>
  /\ UNCHANGED <<last, fb, previous, ret>>

\* generate, after _process_story_generation returned.
Respond(r) ==
  /\ pc[r] = "respond"
  /\ stories' = [stories EXCEPT ![r].processing_time =
                   IF result[r].success THEN "elapsed" ELSE @]
  /\ response' = [response EXCEPT ![r] = ResponseOf(result[r], r)]
  /\ pc' = [pc EXCEPT ![r] = "done"]
  /\ UNCHANGED <<request, env, logs, clock, stage, pending, exc,
                 character_result, background_result, result>>
  /\ UNCHANGED <<last, fb, previous, ret>>

\* The requests of R are served concurrently, one thread each.
PipelineNext(R) ==
  \E r \in R :
    \/ Generate(r)
    \/ BeginStep(r)
    \/ CallCollaborator(r)
    \/ UpdateStep(r)
    \/ HandleStepException(r)
    \/ PipelineExcept(r)
    \/ Respond(r)

Next == PipelineNext(Requests)

Spec == Init /\ [][Next]_vars

(***************************************************************************)
(* Vocabulary of the properties.                                           *)
(***************************************************************************)
Created(r) == r \in DOMAIN stories
Done(r) == pc[r] = "done"

\* The run has a record of the step: the step was begun.
Begun(r, step) == Matching(logs, r, step) # {}

LaterSteps(step) ==
  CASE step = "speech_to_text" ->
         {"story_generation", "character_image", "background_image",
          "image_composition"}
    [] step = "story_generation" ->
         {"character_image", "background_image", "image_composition"}
    [] OTHER -> {}

\* The collaborators of the two fatal stages answer with success.
TranscriptionFails(r) == env[r].transcription \in {"invalid", "fail", "raise"}
StoryFails(r) == env[r].story \in {"fail", "raise"}
FatalStagesComplete(r) ==
  /\ Created(r)
  /\ env[r].transcription \in {NONE, "ok"}
  /\ env[r].story = "ok"

Terminal(l) == l.status \in {"completed", "failed"}

(***************************************************************************)
(* Properties.                                                             *)
(***************************************************************************)
\* C1: a finished run whose transcription (when audio is present) and story
\* generation both completed reports success with story text and character
\* description populated, whatever the image steps did; a run reports
\* failure only when one of those two stages failed.
C1_SuccessIffFatalStagesComplete ==
  \A r \in Requests :
    Done(r) /\ Created(r) =>
      /\ FatalStagesComplete(r) =>
           /\ response[r].success
           /\ stories[r].story_text # ""
           /\ stories[r].character_description # ""
      /\ ~response[r].success => ~FatalStagesComplete(r)

\* C2: no exception raised inside a ledger write (_create_log, _update_log)
\* ever reaches a step's or the pipeline's except clause, nor becomes the
\* error of the run's outcome.
C2_LedgerWriteNeverAborts ==
  \A r \in Requests :
    /\ exc[r] # LedgerError
    /\ result[r].error # LedgerError

\* C3: in a run whose story generation fails, none of character_image,
\* background_image, image_composition is ever begun, and the outcome of the
\* run is success = false.
C3_StoryFailureIsFatal ==
  \A r \in Requests :
    Created(r) /\ Begun(r, "story_generation") /\ StoryFails(r) =>
      /\ \A s \in LaterSteps("story_generation") : ~Begun(r, s)
      /\ pc[r] \in {"respond", "done"} => ~result[r].success
      /\ Done(r) => ~response[r].success /\ response[r].status = 500

C3_Witness ==
  \E r \in Requests :
    /\ Done(r)
    /\ Created(r)
    /\ Begun(r, "story_generation")
    /\ env[r].story = "fail"
    /\ ~response[r].success

\* C4: the transcription step is begun exactly in the runs that have an
\* audio reference; when transcription fails (validation failure, service
\* failure or exception) no later step is ever begun and the run ends with
\* success = false.
C4_TranscriptionIffAudioAndFatal ==
  \A r \in Requests :
    Created(r) =>
      /\ Begun(r, "speech_to_text") <=>
           /\ Truthy(request[r].audio_file)
           /\ ~(pc[r] = "begin" /\ stage[r] = "speech_to_text")
      /\ TranscriptionFails(r) =>
           /\ \A s \in LaterSteps("speech_to_text") : ~Begun(r, s)
           /\ pc[r] \in {"respond", "done"} => ~result[r].success
           /\ Done(r) => ~response[r].success

C4_Witness ==
  \E r \in Requests :
    /\ Done(r)
    /\ Created(r)
    /\ Begun(r, "speech_to_text")
    /\ TranscriptionFails(r)
    /\ ~response[r].success

\* C5: a request with neither a prompt nor an audio reference is answered
\* with the invalid-input error (400); no Story row is created for it and no
\* step record exists for it.
C5_InvalidInputRejected ==
  \A r \in Requests :
    /\ pc[r] # "idle"
    /\ ~Truthy(request[r].user_prompt)
    /\ ~Truthy(request[r].audio_file)
    => /\ Done(r)
       /\ response[r].status = 400
       /\ ~Created(r)
       /\ \A i \in 1..Len(logs) : logs[i].story # r

C5_Witness ==
  \E r \in Requests :
    /\ Done(r)
    /\ ~Truthy(request[r].user_prompt)
    /\ ~Truthy(request[r].audio_file)
    /\ response[r].status = 400

\* C6: a finished run whose character image generation succeeds and whose
\* background image generation fails reports success, has no
\* image_composition record, no composed image, and keeps its character
\* image.
C6_BackgroundFailureSkipsComposition ==
  \A r \in Requests :
    /\ Done(r)
    /\ FatalStagesComplete(r)
    /\ env[r].character = "ok"
    /\ env[r].background = "fail"
    => /\ response[r].success
       /\ ~Begun(r, "image_composition")
       /\ stories[r].composed_image = NONE
       /\ stories[r].character_image # NONE

\* C7: an image_composition record exists only if the character-image and
\* the background-image step both returned success; a run whose composition
\* fails still reports success and has no composed image.
C7_CompositionOnlyAfterBothImages ==
  \A r \in Requests :
    Created(r) =>
      /\ Begun(r, "image_composition") =>
           character_result[r].success /\ background_result[r].success
      /\ Done(r) /\ env[r].composition = "fail" =>
           /\ response[r].success
           /\ stories[r].composed_image = NONE

\* C8: a run whose character image generation fails goes on: its
\* background_image step is begun, and its character image stays unset.
C8_CharacterFailureContinues ==
  \A r \in Requests :
    Done(r) /\ Created(r) /\ env[r].character = "fail" =>
      /\ Begun(r, "background_image")
      /\ stories[r].character_image = NONE

\* C9: when a step calls its collaborator its record is in 'processing',
\* and when the run has returned every record of the run is 'completed'
\* with a result payload or 'failed' with an error message.
C9_NoRecordLeftProcessing ==
  \A r \in Requests :
    Created(r) =>
      /\ pc[r] = "call" =>
           /\ Begun(r, stage[r])
           /\ logs[Latest(logs, r, stage[r])].status = "processing"
      /\ Done(r) =>
           \A i \in 1..Len(logs) :
             logs[i].story = r =>
               \/ logs[i].status = "completed" /\ logs[i].result_data # ""
               \/ logs[i].status = "failed" /\ logs[i].error_message # ""

\* C10: once _update_log was called for a step that has a record, the most
\* recent record of the step has the status given, a completion timestamp
\* and duration = completion time - start time; and a record is terminal
\* exactly when its completion timestamp and duration are set.
C10_UpdateLogMakesTerminal ==
  /\ \A r \in Requests :
       LET given == IF pc[r] = "except" THEN "failed"
                    ELSE IF pc[r] = "handler" THEN pending[r].status
                    ELSE ""
       IN given # "" /\ Begun(r, stage[r]) =>
            LET l == logs[Latest(logs, r, stage[r])]
            IN /\ l.status = given
               /\ l.completed_at # NullTime
               /\ l.duration # NullTime
               /\ l.duration[1] = l.completed_at[1] - l.started_at
  /\ \A i \in 1..Len(logs) :
       Terminal(logs[i]) <=>
         logs[i].completed_at # NullTime /\ logs[i].duration # NullTime

(***************************************************************************)
(* The ledger called directly: _create_log and _update_log in any order,   *)
(* for two stories and two step kinds, with the arguments the step         *)
(* functions pass ('processing' to create; 'completed' with a result or    *)
(* 'failed' with an error to update).                                      *)
(***************************************************************************)
\* Rows the table may hold when the ledger is called directly.
MaxLogs == 3

TwoRuns == {1, 2}

\* The step kinds of the direct calls (one fatal, one non-fatal step).
LedgerSteps == {"story_generation", "character_image"}

\* What a direct call did: its arguments, whether a record of the story and
\* step existed, str(e) of the exception it raised, and the table before it.
Call(op, story, step, status, raised) ==
  [op |-> op, story |-> story, step |-> step, status |-> status,
   had_record |-> Matching(logs, story, step) # {},
   raised |-> raised, before |-> logs]

\* self._create_log(story, step, 'processing')
LedgerBegin ==
  /\ Len(logs) < MaxLogs
  /\ \E s \in TwoRuns, step \in LedgerSteps :
       /\ logs' = CreateLog(logs, s, step, "processing", clock)
       /\ last' = Call("create", s, step, "processing", "")
  /\ clock' = clock + 1
  /\ UNCHANGED <<request, env, stories, pc, stage, pending, exc,
                 character_result, background_result, result, response,
                 fb, previous, ret>>

\* self._update_log(story, step, 'completed', result_data=...)
LedgerComplete ==
  /\ \E s \in TwoRuns, step \in LedgerSteps :
       LET u == UpdateLog(logs, s, step, "completed", "a result", "")
       IN /\ logs' = u.logs
          /\ last' = Call("update", s, step, "completed", u.raised)
  /\ UNCHANGED <<request, env, stories, clock, pc, stage, pending, exc,
                 character_result, background_result, result, response,
                 fb, previous, ret>>

\* self._update_log(story, step, 'failed', error=...)
LedgerFail ==
  /\ \E s \in TwoRuns, step \in LedgerSteps :
       LET u == UpdateLog(logs, s, step, "failed", "", "an error")
       IN /\ logs' = u.logs
          /\ last' = Call("update", s, step, "failed", u.raised)
  /\ UNCHANGED <<request, env, stories, clock, pc, stage, pending, exc,
                 character_result, background_result, result, response,
                 fb, previous, ret>>

LedgerNext ==
  \/ LedgerBegin
  \/ LedgerComplete
  \/ LedgerFail

SpecLedger == Init /\ [][LedgerNext]_vars

\* C11: _update_log for a story and step kind that has no record raises no
\* error, creates no record and leaves every record of the table as it was.
C11_UpdateWithoutRecordIsNoOp ==
  last.op = "update" /\ ~last.had_record =>
    /\ last.raised = ""
    /\ logs = last.before

C11_Witness ==
  /\ last.op = "update"
  /\ ~last.had_record
  /\ Len(logs) > 0
  /\ last.raised = ""

\* The order of GenerationLog.STATUS_CHOICES: a status may stay, or move
\* from pending to any later status, or from processing to a terminal one.
Forward(a, b) ==
  \/ a = b
  \/ a = "pending" /\ b \in {"processing", "completed", "failed"}
  \/ a = "processing" /\ b \in {"completed", "failed"}

ReportedError(r) ==
  LET b == IF TranscriptionFails(r)
           THEN ProcessAudioBody(stories[r], env[r])
           ELSE GenerateStoryBody(stories[r], env[r])
  IN IF b.raised # "" THEN b.raised ELSE b.pending.error

\* C12: a run whose transcription or story generation fails with error E
\* answers success = false with that error E and the run's story_id.
C12_FatalErrorReachesCaller ==
  \A r \in Requests :
    Done(r) /\ Created(r) /\ (TranscriptionFails(r) \/ StoryFails(r)) =>
      /\ ~response[r].success
      /\ response[r].error = ReportedError(r)
      /\ response[r].story_id = r

(***************************************************************************)
(* StableDiffusionFreeClient._generate_with_fallback, called a number of   *)
(* times in sequence.  The answers of the backends to a call (the status   *)
(* check_model_status reports and, for a ready backend, the outcome of     *)
(* generate_image) are drawn when the call starts.                         *)
(*   fb.pc: "idle", "probe" (about to call check_model_status for model    *)
(*   fb.i), "generate" (about to call generate_image for it), "returned".  *)
(*   fb.probed, fb.invoked: the models probed and invoked so far, in order. *)
(***************************************************************************)
\* Calls of _generate_with_fallback made in sequence.
MaxCalls == 2

\* self.free_models
free_models ==
  <<"runwayml/stable-diffusion-v1-5", "CompVis/stable-diffusion-v1-4",
    "stabilityai/stable-diffusion-2-1">>

\* image_type of generate_character_image and generate_background_image
ImageTypes == {"character", "background"}

\* "status" of check_model_status: 200, 503, anything else or an exception.
ProbeStatuses == {"ready", "loading", "error"}

\* generate_image: {"success": True, ...} or {"success": False, ...}
GenerateOutcomes == {"ok", "fail"}

BackendAnswers ==
  {[probe |-> "ready", generate |-> g] : g \in GenerateOutcomes}
    \cup {[probe |-> p, generate |-> NONE] : p \in {"loading", "error"}}

Answers == [1..Len(free_models) -> BackendAnswers]

\* Mutant of Loaded: a backend that is still loading counts as ready.
LoadedUnlessError(status) == status # "error"

\* status.get("loaded", False)
Loaded(status) == status = "ready"

\* The result of generate_image on success, with result["image_type"] set.
Generated(model, image_type) ==
  [success |-> TRUE, image |-> <<"image by", model>>, model |-> model,
   image_type |-> image_type]

\* Mutant of Exhausted: the failure does not say which image type failed.
ExhaustedWithoutType(image_type) ==
  [success |-> FALSE,
   error |-> "All available models failed to generate image"]

\* The return after the loop: all models failed.
Exhausted(image_type) ==
  [success |-> FALSE,
   error |-> "All available models failed to generate image",
   image_type |-> image_type]

\* Mutant of FirstCandidate: the loop starts at the model that succeeded in
\* the call before.
FirstCandidateCached(prev) ==
  IF prev.n > 0 /\ prev.result.success
  THEN CHOOSE i \in 1..Len(free_models) : free_models[i] = prev.result.model
  ELSE 1

\* for model in self.free_models: the first model of a call.
FirstCandidate(prev) == 1

\* continue / the end of the loop body: the next model, or the return after
\* the loop.
Advance(f) ==
  IF f.i < Len(free_models)
  THEN [f EXCEPT !.i = f.i + 1, !.pc = "probe"]
  ELSE [f EXCEPT !.pc = "returned", !.result = Exhausted(f.image_type)]

\* status = self.hf_client.check_model_status(model) and the test of it
OnProbe(f, status) ==
  LET g == [f EXCEPT !.probed = Append(@, f.i)]
  IN IF ~Loaded(status) THEN Advance(g) ELSE [g EXCEPT !.pc = "generate"]

\* Mutant of OnGenerate: a success is kept but the loop goes on.
OnGenerateKeepsGoing(f, outcome) ==
  LET g == [f EXCEPT !.invoked = Append(@, f.i)]
  IN IF outcome = "ok" /\ f.i < Len(free_models)
     THEN [g EXCEPT !.i = f.i + 1, !.pc = "probe"]
     ELSE IF outcome = "ok"
     THEN [g EXCEPT !.pc = "returned",
                    !.result = Generated(free_models[f.i], f.image_type)]
     ELSE Advance(g)

\* result = self.hf_client.generate_image(...) and the test of it
OnGenerate(f, outcome) ==
  LET g == [f EXCEPT !.invoked = Append(@, f.i)]
  IN IF outcome = "ok"
     THEN [g EXCEPT !.pc = "returned",
                    !.result = Generated(free_models[f.i], f.image_type)]
     ELSE Advance(g)

pipelineIdle ==
  UNCHANGED <<request, env, stories, logs, clock, pc, stage, pending, exc,
              character_result, background_result, result, response, last,
              ret>>

\* _generate_with_fallback(prompt, image_type) is called.
FallbackCall ==
  /\ fb.pc = "idle"
  /\ previous.n < MaxCalls
  /\ \E t \in ImageTypes, a \in Answers :
       fb' = [pc |-> "probe", image_type |-> t, answers |-> a,
              i |-> FirstCandidate(previous), probed |-> << >>,
              invoked |-> << >>, result |-> [success |-> FALSE]]
  /\ UNCHANGED previous
  /\ pipelineIdle

FallbackProbe ==
  /\ fb.pc = "probe"
  /\ fb' = OnProbe(fb, fb.answers[fb.i].probe)
  /\ UNCHANGED previous
  /\ pipelineIdle

FallbackGenerate ==
  /\ fb.pc = "generate"
  /\ fb' = OnGenerate(fb, fb.answers[fb.i].generate)
  /\ UNCHANGED previous
  /\ pipelineIdle

\* The caller has the result; the client is ready for the next call.
FallbackReturn ==
  /\ fb.pc = "returned"
  /\ previous' = [n |-> previous.n + 1, image_type |-> fb.image_type,
                  answers |-> fb.answers, result |-> fb.result]
  /\ fb' = NoFallback
  /\ pipelineIdle

FallbackNext ==
  \/ FallbackCall
  \/ FallbackProbe
  \/ FallbackGenerate
  \/ FallbackReturn

SpecFallback == Init /\ [][FallbackNext]_vars

\* The backends that are ready and whose generate succeeds, and the first
\* of a set of backends in list order.
Winners(a) ==
  {i \in 1..Len(free_models) : a[i].probe = "ready" /\ a[i].generate = "ok"}

FirstOf(S) == CHOOSE i \in S : \A j \in S : i <= j

Elems(q) == {q[k] : k \in 1..Len(q)}

\* C13: generate is invoked only on backends whose probe reported ready,
\* and a call returns the result of the first backend in list order that is
\* ready and whose generate succeeds.
C13_FirstReadySuccessWins ==
  fb.pc # "idle" =>
    /\ \A i \in Elems(fb.invoked) : fb.answers[i].probe = "ready"
    /\ fb.pc = "returned" /\ Winners(fb.answers) # {} =>
         fb.result =
           Generated(free_models[FirstOf(Winners(fb.answers))], fb.image_type)

\* [A not ready, B ready and failing, C ready and succeeding] returned C.
C13_Witness ==
  /\ fb.pc = "returned"
  /\ fb.answers[1].probe = "loading"
  /\ fb.answers[2] = [probe |-> "ready", generate |-> "fail"]
  /\ fb.answers[3] = [probe |-> "ready", generate |-> "ok"]
  /\ fb.invoked = <<2, 3>>
  /\ fb.result.success
  /\ fb.result.model = free_models[3]

\* C14 as claimed: when no backend succeeds the call returns a failure that
\* carries the image type and the number of candidates tried.
C14_FailureCarriesTypeAndCount ==
  fb.pc = "returned" /\ Winners(fb.answers) = {} =>
    /\ ~fb.result.success
    /\ fb.result.image_type = fb.image_type
    /\ "candidates_tried" \in DOMAIN fb.result

\* C14 as amended: when no backend succeeds the call returns a failure whose
\* only entries are success = false, the fixed error message and the image
\* type; it carries no number of candidates tried.
C14_FailureCarriesTypeOnly ==
  fb.pc = "returned" /\ Winners(fb.answers) = {} =>
    /\ DOMAIN fb.result = {"success", "error", "image_type"}
    /\ ~fb.result.success
    /\ fb.result.error = "All available models failed to generate image"
    /\ fb.result.image_type = fb.image_type

C14_Witness ==
  /\ fb.pc = "returned"
  /\ Winners(fb.answers) = {}
  /\ Len(fb.probed) = Len(free_models)
  /\ fb.invoked # << >>
  /\ ~fb.result.success

\* C15: after a backend's generate has succeeded no backend later in the
\* list is probed or invoked, and a backend is probed only after every
\* backend before it was probed and either was not ready or was invoked and
\* failed.
C15_ReturnsOnFirstSuccess ==
  fb.pc # "idle" =>
    /\ \A i \in Elems(fb.invoked) :
         fb.answers[i].generate = "ok" =>
           /\ \A j \in Elems(fb.probed) \cup Elems(fb.invoked) : j <= i
           /\ fb.pc = "returned"
    /\ \A k \in 1..Len(fb.probed) :
         /\ fb.probed[k] = k
         /\ \A j \in 1..(k - 1) :
              \/ fb.answers[j].probe # "ready"
              \/ j \in Elems(fb.invoked) /\ fb.answers[j].generate = "fail"

\* The first backend succeeded and the two behind it, also ready and
\* succeeding, were left alone.
C15_Witness ==
  /\ fb.pc = "returned"
  /\ \A i \in 1..Len(free_models) :
       fb.answers[i] = [probe |-> "ready", generate |-> "ok"]
  /\ fb.probed = <<1>>
  /\ fb.invoked = <<1>>
  /\ fb.result.success

\* C16: every call probes the first backend of the list first, whatever the
\* calls before it met, and two calls that get the same answers for the
\* same image type return the same result.
C16_StatelessAcrossCalls ==
  fb.pc # "idle" =>
    /\ fb.probed = << >> => fb.pc = "probe" /\ fb.i = 1
    /\ fb.probed # << >> => fb.probed[1] = 1
    /\ /\ fb.pc = "returned"
       /\ previous.n > 0
       /\ previous.answers = fb.answers
       /\ previous.image_type = fb.image_type
       => fb.result = previous.result

\* A second call, after a call in which the first backend was not ready and
\* a later one succeeded, has probed the first backend again.
C16_Witness ==
  /\ previous.n > 0
  /\ previous.answers[1].probe # "ready"
  /\ previous.result.success
  /\ fb.pc = "returned"
  /\ fb.probed[1] = 1
  /\ fb.answers[1].probe = "ready"

(***************************************************************************)
(* Outputs of a run.                                                       *)
(***************************************************************************)
\* The Story field a step writes holds a value.
Populated(story, step) ==
  CASE step = "speech_to_text" -> story.transcribed_text # ""
    [] step = "story_generation" ->
         story.story_text # "" \/ story.character_description # ""
    [] step = "character_image" -> story.character_image # NONE
    [] step = "background_image" -> story.background_image # NONE
    [] OTHER -> story.composed_image # NONE

\* C18: no run ends in the failure of a step whose output field is
\* populated: the step the run failed in has left its output unset.
C18_FailedStepLeavesOutputUnset ==
  \A r \in Requests :
    Done(r) /\ Created(r) /\ ~response[r].success =>
      ~Populated(stories[r], stage[r])

(***************************************************************************)
(* Two requests served concurrently, and the same request served alone.    *)
(***************************************************************************)
SpecConcurrent ==
  /\ PipelineInit(TwoRuns)
  /\ last = NoCall
  /\ fb = NoFallback
  /\ previous = NoPrevious
  /\ ret = NoReturn
  /\ [][PipelineNext(TwoRuns)]_vars

\* _process_story_generation executed from the given step on, on tables that
\* no other run writes: the pipeline's return value and the Story row.
RECURSIVE SoloFrom(_, _, _, _, _, _, _)
SoloFrom(r, e, story, L, step, cres, bres) ==
  LET L1 == CreateLog(L, r, step, "processing", Len(L) + 1)
      b == StepBody(step, story, e)
      u == UpdateLog(L1, r, step, b.pending.status, b.pending.result_data,
                     b.pending.error)
      caught == IF b.raised # "" THEN b.raised ELSE u.raised
      h == UpdateLog(IF b.raised # "" THEN L1 ELSE u.logs, r, step,
                     "failed", "", caught)
      returned ==
        IF caught = ""
        THEN [raised |-> "", logs |-> u.logs,
              res |-> IF b.pending.status = "completed"
                      THEN Ok
                      ELSE Failure(b.pending.error)]
        ELSE IF h.raised = ""
        THEN [raised |-> "", logs |-> h.logs, res |-> Failure(caught)]
        ELSE [raised |-> h.raised, logs |-> h.logs, res |-> NoResult]
      g == AfterStep(step, returned.res, cres, bres)
  IN IF returned.raised # ""
     THEN [result |-> PipelineExceptResult(returned.raised), story |-> b.story]
     ELSE IF g.pc = "begin"
     THEN SoloFrom(r, e, b.story, returned.logs, g.stage,
                   g.character_result, g.background_result)
     ELSE [result |-> g.result, story |-> b.story]

\* generate executed alone for the request and the collaborator answers of
\* run r: its Response and the Story row it leaves.
SoloOutcome(r) ==
  LET s == NewStory(request[r].user_prompt, request[r].audio_file)
      o == SoloFrom(r, env[r], s, << >>, FirstStep(s), NoResult, NoResult)
  IN [response |-> ResponseOf(o.result, r),
      story |-> [o.story EXCEPT !.processing_time =
                   IF o.result.success THEN "elapsed" ELSE @]]

\* The records of a run, in the order of the table.
RecordsOf(L, r) == SelectSeq(L, LAMBDA l : l.story = r)

\* The record _update_log selects for a run that is about to call it is a
\* record of that run, and a finished run has the outcome of the same
\* request served alone.
OwnRecordAndOutcome ==
  \A r \in TwoRuns :
    /\ pc[r] \in {"update", "handler"} /\ Begun(r, stage[r]) =>
         logs[Latest(logs, r, stage[r])].story = r
    /\ Done(r) /\ Created(r) =>
         /\ response[r] = SoloOutcome(r).response
         /\ stories[r] = SoloOutcome(r).story

\* A step of run a creates and modifies no record, Story row or response of
\* the other run.
TouchesOwnOnly ==
  \A a \in TwoRuns :
    pc'[a] # pc[a] =>
      \A b \in TwoRuns \ {a} :
        /\ RecordsOf(logs', b) = RecordsOf(logs, b)
        /\ (b \in DOMAIN stories') = (b \in DOMAIN stories)
        /\ b \in DOMAIN stories => stories'[b] = stories[b]
        /\ response'[b] = response[b]
        /\ result'[b] = result[b]

\* C19: under every interleaving of two concurrent runs, the ledger
\* operations and output writes of a run create, modify and select only
\* records and fields of that run, and the outcome of each run is the
\* outcome it has when executed alone with the same collaborator answers.
C19_RunsAreIndependent ==
  []OwnRecordAndOutcome /\ [][TouchesOwnOnly]_vars

\* Run 2 began its step first; run 1 overtook it and has answered while
\* run 2 is still in the step.
C19_Witness ==
  /\ Len(logs) = 2
  /\ logs[1].story = 2
  /\ logs[2].story = 1
  /\ logs[1].step = logs[2].step
  /\ Done(1)
  /\ Created(1)
  /\ pc[2] \in {"update", "handler"}

(***************************************************************************)
(* Order of the steps of a run.                                            *)
(***************************************************************************)
StepIndex(step) == CHOOSE i \in 1..Len(Steps) : Steps[i] = step

StoryKeys == TwoRuns \cup {3}

\* The dict appended to logs_data for a record.
LogData(l) ==
  [step |-> l.step,
   status |-> l.status,
   started_at |-> l.started_at,
   completed_at |-> l.completed_at,
   duration |-> l.duration,
   error_message |-> l.error_message]

\* Meta.ordering = ['started_at']: the rows in ascending order of started_at.
RECURSIVE OrderByStartedAt(_)
OrderByStartedAt(rows) ==
  IF rows = << >>
  THEN << >>
  ELSE LET k == CHOOSE i \in 1..Len(rows) :
                  \A j \in 1..Len(rows) :
                    /\ rows[i].started_at <= rows[j].started_at
                    /\ rows[i].started_at = rows[j].started_at => i <= j
           rest == [j \in 1..(Len(rows) - 1) |->
                      IF j < k THEN rows[j] ELSE rows[j + 1]]
       IN <<rows[k]>> \o OrderByStartedAt(rest)

\* Mutant of RelatedLogs: the rows of every story.
RelatedLogsOfAll(L, pk) == OrderByStartedAt(L)

\* story.logs.all(): the rows whose story is the given one, in Meta order.
RelatedLogs(L, pk) ==
  OrderByStartedAt(SelectSeq(L, LAMBDA l : l.story = pk))

RECURSIVE LogsData(_)
LogsData(rows) ==
  IF rows = << >>
  THEN << >>
  ELSE <<LogData(Head(rows))>> \o LogsData(Tail(rows))

\* The Response of generation_logs; get_object_or_404 answers 404.
GenerationLogsResponse(S, L, pk) ==
  IF pk \in DOMAIN S
  THEN [status |-> 200, story_id |-> pk, logs |-> LogsData(RelatedLogs(L, pk))]
  ELSE [status |-> 404, story_id |-> 0, logs |-> << >>]

\* Two stories were created by generate and no step has begun.
LogsInit ==
  /\ request = [r \in Requests |-> NoRequest]
  /\ env = [r \in Requests |-> NoEnv]
  /\ stories = [r \in TwoRuns |-> NewStory("a prompt", NONE)]
  /\ logs = << >>
  /\ clock = 1
  /\ pc = [r \in Requests |-> "idle"]
  /\ stage = [r \in Requests |-> NONE]
  /\ pending = [r \in Requests |-> NoPending]
  /\ exc = [r \in Requests |-> ""]
  /\ character_result = [r \in Requests |-> NoResult]
  /\ background_result = [r \in Requests |-> NoResult]
  /\ result = [r \in Requests |-> NoResult]
  /\ response = [r \in Requests |-> NoResponse]
  /\ last = NoCall
  /\ fb = NoFallback
  /\ previous = NoPrevious
  /\ ret = NoReturn

\* GET generation_logs for primary key pk.
GenerationLogs ==
  /\ \E pk \in StoryKeys :
       ret' = [op |-> "generation_logs", pk |-> pk, table |-> logs,
               response |-> GenerationLogsResponse(stories, logs, pk)]
  /\ UNCHANGED <<request, env, stories, logs, clock, pc, stage, pending, exc,
                 character_result, background_result, result, response,
                 last, fb, previous>>

LogsNext ==
  \/ LedgerBegin
  \/ LedgerComplete
  \/ LedgerFail
  \/ GenerationLogs

SpecLogs == LogsInit /\ [][LogsNext]_vars

\* C21: generation_logs for a story answers with one entry for each step
\* record of that story and none for a record of another story, in order of
\* non-decreasing start time.
C21_LogsOfTheRunInStartOrder ==
  ret.op = "generation_logs" /\ ret.response.status = 200 =>
    LET mine == {i \in 1..Len(ret.table) : ret.table[i].story = ret.pk}
        data == ret.response.logs
    IN /\ Len(data) = Cardinality(mine)
       /\ \A i \in mine : \E k \in 1..Len(data) : data[k] = LogData(ret.table[i])
       /\ \A k \in 1..Len(data) : \E i \in mine : data[k] = LogData(ret.table[i])
       /\ \A j, k \in 1..Len(data) :
            j < k => data[j].started_at <= data[k].started_at

\* The story asked for has two records with a record of the other story
\* between them.
C21_Witness ==
  /\ ret.op = "generation_logs"
  /\ ret.response.status = 200
  /\ Len(ret.table) = 3
  /\ ret.table[1].story = ret.pk
  /\ ret.table[2].story # ret.pk
  /\ ret.table[3].story = ret.pk
  /\ Len(ret.response.logs) = 2

(***************************************************************************)
(* Python float arithmetic of _resize_image: w / h is the IEEE double       *)
(* nearest to the quotient, and int(t / x) and int(t * x) truncate the      *)
(* double nearest to the exact quotient or product with that double x.      *)
(* For the image sizes considered here an exact result that is not an       *)
(* integer lies further from the integers than any rounding error, so the   *)
(* truncation differs from the exact floor only when the exact result is    *)
(* an integer n and the double rounds to the one just below n.              *)
(***************************************************************************)
\* Bits of the fraction of a double.
MantissaBits == 52

RECURSIVE Pow2(_)
Pow2(k) == IF k = 0 THEN 1 ELSE 2 * Pow2(k - 1)

\* floor(log2(a / b)) for positive integers a and b.
RECURSIVE FloorLog2(_, _)
FloorLog2(a, b) ==
  IF a >= 2 * b THEN FloorLog2(a, 2 * b) + 1
  ELSE IF a < b THEN FloorLog2(2 * a, b) - 1
  ELSE 0

RECURSIVE IsPowerOfTwo(_)
IsPowerOfTwo(n) == n = 1 \/ (n % 2 = 0 /\ IsPowerOfTwo(n \div 2))

\* k more bits of the quotient of a long division by b: the remainder
\* left and the last bit produced.
RECURSIVE LongDivision(_, _, _, _)
LongDivision(rem, b, bit, k) ==
  IF k = 0 THEN [rem |-> rem, bit |-> bit]
  ELSE IF 2 * rem >= b THEN LongDivision(2 * rem - b, b, 1, k - 1)
  ELSE LongDivision(2 * rem, b, 0, k - 1)

\* The double w / h (w, h positive): with a / b the quotient scaled into
\* [1, 2), its 53-bit significand is (a * 2^52 + d) / b, rounded to nearest,
\* ties to even; d > 0 when it was rounded up, d < 0 when rounded down.
FloatDiv(w, h) ==
  LET k == FloorLog2(w, h)
      a == IF k >= 0 THEN w ELSE w * Pow2(0 - k)
      b == IF k >= 0 THEN h * Pow2(k) ELSE h
      q == LongDivision(a - b, b, 1, MantissaBits)
      up == 2 * q.rem > b \/ (2 * q.rem = b /\ q.bit = 1)
  IN [num |-> w, den |-> h, a |-> a,
      d |-> IF up THEN b - q.rem ELSE 0 - q.rem]

\* A result whose exact value is n * (1 - d / (a * 2^52)) rounds to the
\* double just below the integer n: it lies more than half a spacing of
\* the doubles below n away from n.
RoundsBelow(n, a, d) ==
  LET e == (IF IsPowerOfTwo(n) THEN 2 ELSE 1) - FloorLog2(n, 1)
  IN IF e >= 0 THEN n * d * Pow2(e) > a ELSE n * d > a * Pow2(0 - e)

\* int(t / x) for the double x = FloatDiv(w, h)
IntOfQuotient(t, x) ==
  LET n == (t * x.den) \div x.num
  IN IF (t * x.den) % x.num = 0 /\ x.d > 0 /\ RoundsBelow(n, x.a, x.d)
     THEN n - 1
     ELSE n

\* int(t * x) for the double x = FloatDiv(w, h)
IntOfProduct(t, x) ==
  LET n == (t * x.num) \div x.den
  IN IF (t * x.num) % x.den = 0 /\ x.d < 0 /\ RoundsBelow(n, x.a, 0 - x.d)
     THEN n - 1
     ELSE n

(***************************************************************************)
(* ImageComposer._resize_image on the sizes of the images.                 *)
(***************************************************************************)
\* Sides of the images and of the targets passed in.
MaxSide == 9

ImageSizes == (0..MaxSide) \X (0..MaxSide)

\* The empty, the smallest and the largest side, in every combination.
ExtremeSizes == {0, 1, MaxSide} \X {0, 1, MaxSide}

\* self.default_size, the character size compose_scene derives from it, and
\* thumb_size of the grid collage.
default_size == <<1024, 768>>
char_width == IntOfProduct(default_size[1], FloatDiv(4, 10))
char_height == IntOfProduct(char_width, FloatDiv(12, 10))
thumb_size == <<300, 300>>

TargetSizes ==
  {default_size, <<char_width, char_height>>, thumb_size}
    \cup ((1..MaxSide) \X (1..MaxSide))

NoBox == <<0, 0, 0, 0>>

Resized(raised, scaled, box, size) ==
  [raised |-> raised, scaled |-> scaled, box |-> box, size |-> size]

\* Mutant of Crop: the image is returned as scaled.
CropSkipped(scaled, target_size) == Resized("", scaled, NoBox, scaled)

\* resized.crop((left, top, right, bottom)) when the size is not the
\* target's: the image returned has the size of the box.
Crop(scaled, target_size) ==
  IF scaled # target_size
  THEN LET left == (scaled[1] - target_size[1]) \div 2
           top == (scaled[2] - target_size[2]) \div 2
           right == left + target_size[1]
           bottom == top + target_size[2]
       IN Resized("", scaled, <<left, top, right, bottom>>,
                  <<right - left, bottom - top>>)
  ELSE Resized("", scaled, NoBox, scaled)

\* _resize_image(image, target_size) for an image of the given size.
ResizeImage(size, target_size) ==
  IF size[2] = 0
  THEN Resized("division by zero", <<0, 0>>, NoBox, <<0, 0>>)
  ELSE IF size[1] = 0
  THEN Resized("float division by zero", <<0, 0>>, NoBox, <<0, 0>>)
  ELSE LET img_ratio == FloatDiv(size[1], size[2])
       IN IF size[1] * target_size[2] > target_size[1] * size[2]
          THEN Crop(<<IntOfProduct(target_size[2], img_ratio), target_size[2]>>,
                    target_size)
          ELSE Crop(<<target_size[1], IntOfQuotient(target_size[1], img_ratio)>>,
                    target_size)

\* The calls made directly to the composer, before they are made.
ResizeInputs ==
  {[op |-> "_resize_image", called |-> FALSE, image |-> s, target_size |-> t] :
     s \in ImageSizes, t \in TargetSizes}

(***************************************************************************)
(* ImageComposer._calculate_position                                       *)
(***************************************************************************)
PositionKeys == {"center", "left", "right", "bottom_center", "top_center"}

\* Mutant of Positions: 'right' leaves the margin of a sixth of the width
\* but not the width of the character.
PositionsRightMargin(bg_size, char_size) ==
  LET bg_w == bg_size[1]
      bg_h == bg_size[2]
      char_w == char_size[1]
      char_h == char_size[2]
  IN [key \in PositionKeys |->
        CASE key = "center" ->
               <<(bg_w - char_w) \div 2, (bg_h - char_h) \div 2>>
          [] key = "left" ->
               <<bg_w \div 6, (bg_h - char_h) \div 2>>
          [] key = "right" ->
               <<bg_w - (bg_w \div 6), (bg_h - char_h) \div 2>>
          [] key = "bottom_center" ->
               <<(bg_w - char_w) \div 2, bg_h - char_h - 50>>
          [] OTHER ->
               <<(bg_w - char_w) \div 2, 50>>]

\* The dict positions of _calculate_position.
Positions(bg_size, char_size) ==
  LET bg_w == bg_size[1]
      bg_h == bg_size[2]
      char_w == char_size[1]
      char_h == char_size[2]
  IN [key \in PositionKeys |->
        CASE key = "center" ->
               <<(bg_w - char_w) \div 2, (bg_h - char_h) \div 2>>
          [] key = "left" ->
               <<bg_w \div 6, (bg_h - char_h) \div 2>>
          [] key = "right" ->
               <<bg_w - char_w - (bg_w \div 6), (bg_h - char_h) \div 2>>
          [] key = "bottom_center" ->
               <<(bg_w - char_w) \div 2, bg_h - char_h - 50>>
          [] OTHER ->
               <<(bg_w - char_w) \div 2, 50>>]

\* Mutant of Get: a key that is missing gives the origin.
GetOrOrigin(dict, key, default) ==
  IF key \in DOMAIN dict THEN dict[key] ELSE <<0, 0>>

\* dict.get(key, default)
Get(dict, key, default) ==
  IF key \in DOMAIN dict THEN dict[key] ELSE default

\* _calculate_position(bg_size, char_size, position)
CalculatePosition(bg_size, char_size, position) ==
  Get(Positions(bg_size, char_size), position,
      Positions(bg_size, char_size)["center"])

\* Position keys passed in: the five of the dict and two it does not have.
PositionArgs == PositionKeys \cup {"top_left", ""}

PositionInputs ==
  {[op |-> "_calculate_position", called |-> FALSE, bg_size |-> b,
    char_size |-> c, position |-> k] :
     b \in {default_size} \cup ({1, MaxSide} \X {1, MaxSide}),
     c \in {<<400, 480>>, <<char_width, char_height>>}
            \cup ((1..MaxSide) \X (1..MaxSide)),
     k \in PositionArgs}

(***************************************************************************)
(* ImageComposer.compose_scene                                             *)
(***************************************************************************)
\* Mutant of CharacterTarget: the character keeps a size of its own, scaled
\* to the character width.
CharacterTargetByRatio(character_image) ==
  <<char_width, char_width + character_image[2]>>

\* (char_width, char_height), the size the character is resized to.
CharacterTarget(character_image) == <<char_width, char_height>>

\* compose_scene for images of the given sizes: the sizes in its result and
\* the offset the character is pasted at.
ComposeScene(character_image, background_image, position, blend_edges) ==
  LET bg_resized == ResizeImage(background_image, default_size)
      char_resized == ResizeImage(character_image,
                                  CharacterTarget(character_image))
  IN IF bg_resized.raised # ""
     THEN [success |-> FALSE, error |-> bg_resized.raised]
     ELSE IF char_resized.raised # ""
     THEN [success |-> FALSE, error |-> char_resized.raised]
     ELSE [success |-> TRUE,
           dimensions |-> bg_resized.size,
           pasted_at |-> CalculatePosition(bg_resized.size, char_resized.size,
                                           position),
           composition_info |->
             [character_position |-> position,
              character_size |-> char_resized.size,
              background_size |-> bg_resized.size,
              blend_edges |-> blend_edges]]

ComposeInputs ==
  {[op |-> "compose_scene", called |-> FALSE, character_image |-> c,
    background_image |-> b, character_position |-> k, blend_edges |-> e] :
     c \in ImageSizes, b \in ExtremeSizes, k \in {"center", "left"},
     e \in BOOLEAN}

(***************************************************************************)
(* ImageComposer.create_collage                                            *)
(***************************************************************************)
\* Images of a list passed to create_collage.
MaxImages == 5

\* A landscape and a portrait image.
CollageImages == {<<4, 3>>, <<3, 4>>}

Layouts == {"grid", "horizontal", "vertical"}

\* Mutant of CreateGridCollage: the number of rows is rounded down.
CreateGridCollageRoundedDown(images) ==
  LET num_images == Len(images)
      cols == IF num_images <= 4 THEN 2 ELSE 3
      rows == IF num_images <= 4
              THEN num_images \div 2
              ELSE num_images \div 3
      thumbnails == [i \in 1..num_images |-> ResizeImage(images[i], thumb_size)]
  IN IF \E i \in 1..num_images : thumbnails[i].raised # ""
     THEN [success |-> FALSE,
           error |-> thumbnails[CHOOSE i \in 1..num_images :
                                  /\ thumbnails[i].raised # ""
                                  /\ \A j \in 1..(i - 1) :
                                       thumbnails[j].raised = ""].raised]
     ELSE [success |-> TRUE,
           layout |-> "grid",
           dimensions |-> <<cols * thumb_size[1], rows * thumb_size[2]>>,
           pasted |-> [i \in 1..num_images |->
                         [size |-> thumbnails[i].size,
                          at |-> <<((i - 1) % cols) * thumb_size[1],
                                   ((i - 1) \div cols) * thumb_size[2]>>]]]

\* _create_grid_collage(images)
CreateGridCollage(images) ==
  LET num_images == Len(images)
      cols == IF num_images <= 4 THEN 2 ELSE 3
      rows == IF num_images <= 4
              THEN (num_images + 1) \div 2
              ELSE (num_images + 2) \div 3
      thumbnails == [i \in 1..num_images |-> ResizeImage(images[i], thumb_size)]
  IN IF \E i \in 1..num_images : thumbnails[i].raised # ""
     THEN [success |-> FALSE,
           error |-> thumbnails[CHOOSE i \in 1..num_images :
                                  /\ thumbnails[i].raised # ""
                                  /\ \A j \in 1..(i - 1) :
                                       thumbnails[j].raised = ""].raised]
     ELSE [success |-> TRUE,
           layout |-> "grid",
           dimensions |-> <<cols * thumb_size[1], rows * thumb_size[2]>>,
           pasted |-> [i \in 1..num_images |->
                         [size |-> thumbnails[i].size,
                          at |-> <<((i - 1) % cols) * thumb_size[1],
                                   ((i - 1) \div cols) * thumb_size[2]>>]]]

\* create_collage(images, layout): ImageComposer has no method
\* _create_horizontal_collage, so the 'horizontal' branch raises
\* AttributeError inside the try block.
CreateCollage(images, layout) ==
  IF images = << >>
  THEN [success |-> FALSE, error |-> "No images provided"]
  ELSE IF layout = "grid"
  THEN CreateGridCollage(images)
  ELSE IF layout = "horizontal"
  THEN [success |-> FALSE,
        error |-> "'ImageComposer' object has no attribute '_create_horizontal_collage'"]
  ELSE [success |-> FALSE, error |-> "Unsupported layout: " \o layout]

ImageLists ==
  UNION {[1..n -> CollageImages] : n \in 0..MaxImages}

CollageInputs ==
  {[op |-> "create_collage", called |-> FALSE, images |-> l, layout |-> y] :
     l \in ImageLists, y \in Layouts}

(***************************************************************************)
(* ImageComposer._create_soft_mask, up to the Gaussian blur.  A mask is    *)
(* the function from its pixels <<x, y>> to their values.                  *)
(***************************************************************************)
\* The default of the parameter fade_distance.
fade_distance == 20

\* Image.new('L', size, color)
NewImage(size, color) ==
  [p \in (0..(size[1] - 1)) \X (0..(size[2] - 1)) |-> color]

\* Mutant of Alpha: the rings are counted from one.
AlphaFromOne(i, fade) ==
  IntOfProduct(255, FloatDiv(i + 1, fade))

\* alpha = int(255 * (i / fade_distance))
Alpha(i, fade) ==
  IF i = 0 THEN 0 ELSE IntOfProduct(255, FloatDiv(i, fade))

\* draw.rectangle([p0, p1], outline=outline, width=1) for p0 <= p1: the
\* pixels on the border of the rectangle, both corners included.
Rectangle(mask, p0, p1, outline) ==
  [p \in DOMAIN mask |->
     IF /\ p0[1] <= p[1] /\ p[1] <= p1[1]
        /\ p0[2] <= p[2] /\ p[2] <= p1[2]
        /\ \/ p[1] = p0[1]
           \/ p[1] = p1[1]
           \/ p[2] = p0[2]
           \/ p[2] = p1[2]
     THEN outline
     ELSE mask[p]]

\* The iterations i, i + 1, ... of the loop over range(fade_distance).
RECURSIVE DrawRings(_, _, _, _)
DrawRings(mask, size, fade, i) ==
  IF i >= fade
  THEN mask
  ELSE DrawRings(Rectangle(mask, <<i, i>>,
                           <<size[1] - i - 1, size[2] - i - 1>>,
                           Alpha(i, fade)),
                 size, fade, i + 1)

\* The mask of _create_soft_mask(size, fade_distance) before it is blurred.
CreateSoftMask(size, fade) ==
  DrawRings(NewImage(size, 255), size, fade, 0)

\* Masks of at least twice the fade distance in both dimensions, where no
\* rectangle of the loop has its corners out of order: every fade distance
\* that fits a side of MaxSide, and the default one.
MaskInputs ==
  {[op |-> "_create_soft_mask", called |-> FALSE, size |-> <<w, h>>,
    fade_distance |-> f] :
     f \in 1..(MaxSide \div 2), w \in 2..MaxSide, h \in 2..MaxSide}
  \cup
  {[op |-> "_create_soft_mask", called |-> FALSE, size |-> z,
    fade_distance |-> fade_distance] :
     z \in {<<2 * fade_distance + 1, 2 * fade_distance + 3>>}}

ComposerInputs ==
  ResizeInputs \cup PositionInputs \cup ComposeInputs \cup CollageInputs
    \cup {m \in MaskInputs : /\ m.size[1] >= 2 * m.fade_distance
                             /\ m.size[2] >= 2 * m.fade_distance}

ComposerInit ==
  /\ PipelineInit(Requests)
  /\ last = NoCall
  /\ fb = NoFallback
  /\ previous = NoPrevious
  /\ ret \in ComposerInputs

composerOnly ==
  UNCHANGED <<request, env, stories, logs, clock, pc, stage, pending, exc,
              character_result, background_result, result, response,
              last, fb, previous>>

CallResize ==
  /\ ret.op = "_resize_image"
  /\ ~ret.called
  /\ ret' = [op |-> ret.op, called |-> TRUE, image |-> ret.image,
             target_size |-> ret.target_size,
             out |-> ResizeImage(ret.image, ret.target_size)]
  /\ composerOnly

CallCalculatePosition ==
  /\ ret.op = "_calculate_position"
  /\ ~ret.called
  /\ ret' = [op |-> ret.op, called |-> TRUE, bg_size |-> ret.bg_size,
             char_size |-> ret.char_size, position |-> ret.position,
             out |-> CalculatePosition(ret.bg_size, ret.char_size,
                                       ret.position)]
  /\ composerOnly

CallComposeScene ==
  /\ ret.op = "compose_scene"
  /\ ~ret.called
  /\ ret' = [op |-> ret.op, called |-> TRUE,
             character_image |-> ret.character_image,
             background_image |-> ret.background_image,
             character_position |-> ret.character_position,
             blend_edges |-> ret.blend_edges,
             out |-> ComposeScene(ret.character_image, ret.background_image,
                                  ret.character_position, ret.blend_edges)]
  /\ composerOnly

CallCreateCollage ==
  /\ ret.op = "create_collage"
  /\ ~ret.called
  /\ ret' = [op |-> ret.op, called |-> TRUE, images |-> ret.images,
             layout |-> ret.layout,
             out |-> CreateCollage(ret.images, ret.layout)]
  /\ composerOnly

CallCreateSoftMask ==
  /\ ret.op = "_create_soft_mask"
  /\ ~ret.called
  /\ ret' = [op |-> ret.op, called |-> TRUE, size |-> ret.size,
             fade_distance |-> ret.fade_distance,
             out |-> CreateSoftMask(ret.size, ret.fade_distance)]
  /\ composerOnly

ComposerNext ==
  \/ CallResize
  \/ CallCalculatePosition
  \/ CallComposeScene
  \/ CallCreateCollage
  \/ CallCreateSoftMask

SpecComposer == ComposerInit /\ [][ComposerNext]_vars

Positive(size) == size[1] > 0 /\ size[2] > 0

\* C22: _resize_image of an image with positive width and height returns an
\* image whose dimensions are exactly the target's, in particular when the
\* image already has the target size.
C22_ResizeYieldsTargetSize ==
  ret.op = "_resize_image" /\ ret.called /\ Positive(ret.image) =>
    /\ ret.out.raised = ""
    /\ ret.out.size = ret.target_size

\* An image that already has the target size, and one that was cropped.
C22_Witness ==
  /\ ret.op = "_resize_image"
  /\ ret.called
  /\ Positive(ret.image)
  /\ \/ ret.image = ret.target_size
     \/ ret.out.box # NoBox /\ ret.out.scaled[1] > ret.target_size[1]

\* C30: the scaled intermediate image of _resize_image covers the target in
\* both dimensions, with equality on one of them, so the crop rectangle lies
\* inside the scaled image.
C30_ScaledImageCoversTarget ==
  ret.op = "_resize_image" /\ ret.called /\ Positive(ret.image) =>
    LET scaled == ret.out.scaled
        box == ret.out.box
    IN /\ scaled[1] >= ret.target_size[1]
       /\ scaled[2] >= ret.target_size[2]
       /\ scaled[1] = ret.target_size[1] \/ scaled[2] = ret.target_size[2]
       /\ box # NoBox =>
            /\ 0 <= box[1] /\ box[3] <= scaled[1]
            /\ 0 <= box[2] /\ box[4] <= scaled[2]

\* C23: _calculate_position maps (1024, 768), (400, 480), 'center' to
\* (312, 144), computes 'center' as the halves of the differences of the
\* sizes, and gives a key it does not know the offset of 'center'.
C23_CenterAndUnknownKey ==
  ret.op = "_calculate_position" /\ ret.called =>
    LET center == <<(ret.bg_size[1] - ret.char_size[1]) \div 2,
                    (ret.bg_size[2] - ret.char_size[2]) \div 2>>
    IN /\ ret.position = "center" => ret.out = center
       /\ ret.position \notin PositionKeys => ret.out = center
       /\ /\ ret.bg_size = <<1024, 768>>
          /\ ret.char_size = <<400, 480>>
          /\ ret.position = "center"
          => ret.out = <<312, 144>>

\* An unknown key for a character that is larger than the background.
C23_Witness ==
  /\ ret.op = "_calculate_position"
  /\ ret.called
  /\ ret.position = "top_left"
  /\ ret.bg_size = <<1, 1>>
  /\ ret.char_size = <<4, 2>>
  /\ ret.out = <<0 - 2, 0 - 1>>

\* C25: a successful compose_scene returns a canvas of 1024 x 768, reports
\* that size as background_size and reports the character size 409 x 490
\* (40% of the canvas width, and 1.2 times that, truncated), whatever the
\* sizes of the two images.
C25_CanonicalGeometry ==
  ret.op = "compose_scene" /\ ret.called /\ ret.out.success =>
    LET w == (40 * 1024) \div 100
        h == (12 * w) \div 10
    IN /\ ret.out.dimensions = <<1024, 768>>
       /\ ret.out.composition_info.background_size = <<1024, 768>>
       /\ ret.out.composition_info.character_size = <<w, h>>
       /\ <<w, h>> = <<409, 490>>

\* A wide character on a tall background.
C25_Witness ==
  /\ ret.op = "compose_scene"
  /\ ret.called
  /\ ret.out.success
  /\ ret.character_image = <<MaxSide, 2>>
  /\ ret.background_image = <<1, MaxSide>>

\* Every image of a collage lies on the canvas and no two share a place.
Tiled(out) ==
  /\ \A i \in DOMAIN out.pasted :
       /\ 0 <= out.pasted[i].at[1]
       /\ out.pasted[i].at[1] + out.pasted[i].size[1] <= out.dimensions[1]
       /\ 0 <= out.pasted[i].at[2]
       /\ out.pasted[i].at[2] + out.pasted[i].size[2] <= out.dimensions[2]
  /\ \A i, j \in DOMAIN out.pasted :
       i # j => out.pasted[i].at # out.pasted[j].at

\* C29: create_collage returns a successful tiled canvas with all N images
\* for every non-empty list under the layouts 'grid' and 'horizontal', and
\* a failure value for an empty list and for any other layout.
C29_CollageOfBothLayouts ==
  ret.op = "create_collage" /\ ret.called =>
    IF ret.images # << >> /\ ret.layout \in {"grid", "horizontal"}
    THEN /\ ret.out.success
         /\ Len(ret.out.pasted) = Len(ret.images)
         /\ Tiled(ret.out)
    ELSE ~ret.out.success

(***************************************************************************)
(* StoryViewSet._extract_scene_context and the prompt of the background    *)
(* image.  A text is the sequence of its characters.                       *)
(***************************************************************************)
location_words ==
  <<"forest", "castle", "city", "mountain", "beach", "desert", "village",
    "house", "room", "garden", "sky", "space">>

mood_words ==
  <<"dark", "bright", "sunny", "stormy", "peaceful", "mystical", "ancient",
    "modern", "magical", "mysterious">>

\* Words a story text is made of here; "Electricity" holds "city".
StoryWords == {"Forest", "ANCIENT", "Electricity", "castle", "Dark", "the"}

\* Words of a story text.
MaxWords == 3

\* The characters of the words above.
Spelling ==
  ("forest" :> <<"f", "o", "r", "e", "s", "t">>) @@
  ("castle" :> <<"c", "a", "s", "t", "l", "e">>) @@
  ("city" :> <<"c", "i", "t", "y">>) @@
  ("mountain" :> <<"m", "o", "u", "n", "t", "a", "i", "n">>) @@
  ("beach" :> <<"b", "e", "a", "c", "h">>) @@
  ("desert" :> <<"d", "e", "s", "e", "r", "t">>) @@
  ("village" :> <<"v", "i", "l", "l", "a", "g", "e">>) @@
  ("house" :> <<"h", "o", "u", "s", "e">>) @@
  ("room" :> <<"r", "o", "o", "m">>) @@
  ("garden" :> <<"g", "a", "r", "d", "e", "n">>) @@
  ("sky" :> <<"s", "k", "y">>) @@
  ("space" :> <<"s", "p", "a", "c", "e">>) @@
  ("dark" :> <<"d", "a", "r", "k">>) @@
  ("bright" :> <<"b", "r", "i", "g", "h", "t">>) @@
  ("sunny" :> <<"s", "u", "n", "n", "y">>) @@
  ("stormy" :> <<"s", "t", "o", "r", "m", "y">>) @@
  ("peaceful" :> <<"p", "e", "a", "c", "e", "f", "u", "l">>) @@
  ("mystical" :> <<"m", "y", "s", "t", "i", "c", "a", "l">>) @@
  ("ancient" :> <<"a", "n", "c", "i", "e", "n", "t">>) @@
  ("modern" :> <<"m", "o", "d", "e", "r", "n">>) @@
  ("magical" :> <<"m", "a", "g", "i", "c", "a", "l">>) @@
  ("mysterious" :> <<"m", "y", "s", "t", "e", "r", "i", "o", "u", "s">>) @@
  ("Forest" :> <<"F", "o", "r", "e", "s", "t">>) @@
  ("ANCIENT" :> <<"A", "N", "C", "I", "E", "N", "T">>) @@
  ("Electricity" :> <<"E", "l", "e", "c", "t", "r", "i", "c", "i", "t", "y">>) @@
  ("castle" :> <<"c", "a", "s", "t", "l", "e">>) @@
  ("Dark" :> <<"D", "a", "r", "k">>) @@
  ("the" :> <<"t", "h", "e">>)

UpperCase ==
  <<"A", "B", "C", "D", "E", "F", "G", "H", "I", "J", "K", "L", "M",
    "N", "O", "P", "Q", "R", "S", "T", "U", "V", "W", "X", "Y", "Z">>

LowerCase ==
  <<"a", "b", "c", "d", "e", "f", "g", "h", "i", "j", "k", "l", "m",
    "n", "o", "p", "q", "r", "s", "t", "u", "v", "w", "x", "y", "z">>

\* str.lower() of one character
LowerChar(c) ==
  IF \E i \in 1..Len(UpperCase) : UpperCase[i] = c
  THEN LowerCase[CHOOSE i \in 1..Len(UpperCase) : UpperCase[i] = c]
  ELSE c

\* story_text.lower()
Lower(text) == [i \in 1..Len(text) |-> LowerChar(text[i])]

\* The text of the given words, with a space between two words.
RECURSIVE TextOf(_)
TextOf(words) ==
  IF words = << >> THEN << >>
  ELSE IF Len(words) = 1 THEN Spelling[words[1]]
  ELSE Spelling[words[1]] \o <<" ">> \o TextOf(Tail(words))

\* word in story_lower
Contains(word, text) ==
  \E i \in 0..(Len(text) - Len(word)) :
    SubSeq(text, i + 1, i + Len(word)) = word

\* for word in ...: if word in story_lower: scene_keywords.append(word)
RECURSIVE ScanWords(_, _, _)
ScanWords(words, story_lower, scene_keywords) ==
  IF words = << >>
  THEN scene_keywords
  ELSE ScanWords(Tail(words), story_lower,
                 IF Contains(Spelling[Head(words)], story_lower)
                 THEN Append(scene_keywords, Head(words))
                 ELSE scene_keywords)

\* Mutant of Slice3: scene_keywords[:2]
Slice2(keywords) ==
  SubSeq(keywords, 1, IF Len(keywords) < 2 THEN Len(keywords) ELSE 2)

\* scene_keywords[:3]
Slice3(keywords) ==
  SubSeq(keywords, 1, IF Len(keywords) < 3 THEN Len(keywords) ELSE 3)

DefaultScene ==
  <<"a", "fantasy", "scene", "with", "atmospheric", "lighting">>

\* _extract_scene_context(story_text); the phrase returned is the sequence
\* of its words, which the code joins with single spaces.
ExtractSceneContext(story_text) ==
  LET scene_keywords ==
        ScanWords(location_words \o mood_words, Lower(story_text), << >>)
  IN IF scene_keywords # << >>
     THEN <<"a">> \o Slice3(scene_keywords) \o <<"scene">>
     ELSE DefaultScene

\* generate_background_image(story_context, character_desc): the prompt
\* passed to _generate_with_fallback, as the sequence of its parts.
BackgroundPrompt(story_context, character_desc) ==
  <<"detailed background scene, ", story_context,
    ", atmospheric lighting, no characters, landscape, environment art">>

CharacterDescriptions == {"a tall knight in silver armour", "a small green dragon"}

StoryTexts == UNION {[1..n -> StoryWords] : n \in 0..MaxWords}

SceneInputs ==
  {[op |-> "_extract_scene_context", called |-> FALSE, story_text |-> t] :
     t \in StoryTexts}
  \cup
  {[op |-> "generate_background_image", called |-> FALSE, story_text |-> t,
    character_description |-> c] :
     t \in StoryTexts, c \in CharacterDescriptions}

SceneInit ==
  /\ PipelineInit(Requests)
  /\ last = NoCall
  /\ fb = NoFallback
  /\ previous = NoPrevious
  /\ ret \in SceneInputs

CallExtractSceneContext ==
  /\ ret.op = "_extract_scene_context"
  /\ ~ret.called
  /\ ret' = [op |-> ret.op, called |-> TRUE, story_text |-> ret.story_text,
             out |-> ExtractSceneContext(TextOf(ret.story_text))]
  /\ composerOnly

\* _generate_background_image, lines 230-232: the scene context is extracted
\* from story.story_text and passed on with story.character_description.
CallGenerateBackgroundImage ==
  /\ ret.op = "generate_background_image"
  /\ ~ret.called
  /\ ret' = [op |-> ret.op, called |-> TRUE, story_text |-> ret.story_text,
             character_description |-> ret.character_description,
             out |-> BackgroundPrompt(
                       ExtractSceneContext(TextOf(ret.story_text)),
                       ret.character_description)]
  /\ composerOnly

SceneNext ==
  \/ CallExtractSceneContext
  \/ CallGenerateBackgroundImage

SpecScene == SceneInit /\ [][SceneNext]_vars

\* The i-th element, in increasing order, of a set of numbers.
Nth(S, i) == CHOOSE x \in S : Cardinality({y \in S : y < x}) = i - 1

C26_BackgroundPromptUsesCharacter ==
  ret.op = "generate_background_image" /\ ret.called =>
    \A c \in CharacterDescriptions \ {ret.character_description} :
      BackgroundPrompt(ExtractSceneContext(TextOf(ret.story_text)), c)
        # ret.out

C31_AppendOnlyLatestOnly ==
  [][/\ Len(logs') >= Len(logs)
     /\ \A i \in 1..Len(logs) :
          logs'[i] # logs[i] =>
            /\ last'.op = "update"
            /\ Matching(logs, last'.story, last'.step) # {}
            /\ i = Latest(logs, last'.story, last'.step)]_vars

\* _update_log was called for a step kind that has two records of the
\* story, next to a record of another step kind or story.
C31_Witness ==
  /\ last.op = "update"
  /\ Cardinality(Matching(logs, last.story, last.step)) = 2
  /\ Len(logs) = 3
  /\ last.before = logs

\* C35: a run holds at most one record of each step kind and at most five
\* records in all.
C35_AtMostOneRecordPerStep ==
  \A r \in Requests :
    /\ \A step \in StepNames : Cardinality(Matching(logs, r, step)) <= 1
    /\ Len(RecordsOf(logs, r)) <= Len(Steps)

\* A run that has answered and began a step.
C35_Witness ==
  \E r \in Requests :
    /\ Done(r)
    /\ Created(r)
    /\ Len(RecordsOf(logs, r)) = 1

\* The distance of a pixel from the nearest edge of an image.
Smaller(a, b) == IF a <= b THEN a ELSE b

EdgeDistance(p, size) ==
  Smaller(Smaller(p[1], size[1] - 1 - p[1]),
          Smaller(p[2], size[2] - 1 - p[2]))

\* C32: in the mask of _create_soft_mask before the blur, for an image at
\* least 2 * fade_distance wide and high, a pixel at distance d from the
\* nearest edge has the value floor(255 * d / fade_distance) when
\* d < fade_distance and 255 otherwise; the outermost ring is 0 and the
\* value never decreases as d grows.
C32_MaskFadesInward ==
  /\ ret.op = "_create_soft_mask"
  /\ ret.called
  /\ ret.size[1] >= 2 * ret.fade_distance
  /\ ret.size[2] >= 2 * ret.fade_distance
  => /\ \A p \in DOMAIN ret.out :
          LET d == EdgeDistance(p, ret.size)
          IN /\ ret.out[p] = IF d < ret.fade_distance
                             THEN (255 * d) \div ret.fade_distance
                             ELSE 255
             /\ d = 0 => ret.out[p] = 0
     /\ LET distances == {EdgeDistance(p, ret.size) : p \in DOMAIN ret.out}
            values == [d \in distances |->
                         {ret.out[p] : p \in {q \in DOMAIN ret.out :
                                                EdgeDistance(q, ret.size) = d}}]
        IN \A d, e \in distances :
             d <= e => \A a \in values[d], b \in values[e] : a <= b

\* The default fade distance on a mask with an opaque middle.
C32_Witness ==
  /\ ret.op = "_create_soft_mask"
  /\ ret.called
  /\ ret.fade_distance = fade_distance
  /\ ret.size = <<2 * fade_distance + 1, 2 * fade_distance + 3>>
  /\ ret.out[<<0, 7>>] = 0
  /\ ret.out[<<7, 30>>] = 89
  /\ ret.out[<<fade_distance, fade_distance + 1>>] = 255

\* C34: on the canvas (1024, 768), for the character size compose_scene
\* uses, each of the five position keys gives an offset with non-negative
\* coordinates at which the character lies entirely inside the canvas.
C34_CharacterInsideCanvas ==
  /\ /\ ret.op = "_calculate_position"
     /\ ret.called
     /\ ret.bg_size = <<1024, 768>>
     /\ ret.char_size = CharacterTarget(ret.char_size)
     /\ ret.position \in PositionKeys
     => /\ 0 <= ret.out[1]
        /\ ret.out[1] + ret.char_size[1] <= ret.bg_size[1]
        /\ 0 <= ret.out[2]
        /\ ret.out[2] + ret.char_size[2] <= ret.bg_size[2]
  /\ /\ ret.op = "compose_scene"
     /\ ret.called
     /\ ret.out.success
     /\ ret.character_position \in PositionKeys
     => LET info == ret.out.composition_info
        IN /\ 0 <= ret.out.pasted_at[1]
           /\ ret.out.pasted_at[1] + info.character_size[1]
                <= ret.out.dimensions[1]
           /\ 0 <= ret.out.pasted_at[2]
           /\ ret.out.pasted_at[2] + info.character_size[2]
                <= ret.out.dimensions[2]

\* The key 'right' on the canvas, which leaves a margin of 170 on the right.
C34_Witness ==
  /\ ret.op = "_calculate_position"
  /\ ret.called
  /\ ret.bg_size = <<1024, 768>>
  /\ ret.char_size = <<409, 490>>
  /\ ret.position = "right"
  /\ ret.out = <<445, 139>>

\* C36: for N >= 1 images _create_grid_collage uses 2 columns when N <= 4
\* and 3 otherwise, rows * cols >= N, the canvas is (cols * 300, rows * 300)
\* and image i (from 0) is pasted at the cell (i mod cols, i div cols): the
\* cells are pairwise distinct and lie inside the canvas.
C36_GridCells ==
  /\ ret.op = "create_collage"
  /\ ret.called
  /\ ret.layout = "grid"
  /\ ret.images # << >>
  => LET N == Len(ret.images)
         cols == IF N <= 4 THEN 2 ELSE 3
         rows == ret.out.dimensions[2] \div 300
         cell == [i \in 0..(N - 1) |-> <<i % cols, i \div cols>>]
     IN /\ ret.out.success
        /\ ret.out.dimensions = <<cols * 300, rows * 300>>
        /\ rows * cols >= N
        /\ Len(ret.out.pasted) = N
        /\ \A i \in 0..(N - 1) :
             /\ ret.out.pasted[i + 1].at = <<cell[i][1] * 300, cell[i][2] * 300>>
             /\ ret.out.pasted[i + 1].size = <<300, 300>>
             /\ cell[i][1] < cols
             /\ cell[i][2] < rows
        /\ \A i, j \in 0..(N - 1) : i # j => cell[i] # cell[j]

\* Five images on a grid of three columns and two rows.
C36_Witness ==
  /\ ret.op = "create_collage"
  /\ ret.called
  /\ ret.layout = "grid"
  /\ Len(ret.images) = 5
  /\ ret.out.success
  /\ ret.out.dimensions = <<900, 600>>
  /\ ret.out.pasted[5].at = <<300, 300>>

\* C33: the orchestrator turns a failure of compose_scene into a failed
\* image_composition step: a finished run whose composition failed has an
\* image_composition record that is 'failed' with the error, and no composed
\* image.
C33_CompositionFailureIsFailedStep ==
  \A r \in Requests :
    Done(r) /\ Created(r) /\ env[r].composition = "fail" =>
      /\ Begun(r, "image_composition")
      /\ logs[Latest(logs, r, "image_composition")].status = "failed"
      /\ stories[r].composed_image = NONE

====
